---- MODULE Spec2Model ----
(***************************************************************************)
(* Model of the StateManager of stickler (src/unnamed/part_001): a finite  *)
(* state machine runner that buffers actions and drains them one per       *)
(* deferred processing run (a setTimeout(..., 0) callback).                *)
(*                                                                         *)
(* The host is the single threaded JavaScript event loop: a timer callback *)
(* starts only when the microtask queue is empty, promise continuations    *)
(* (the code after an await) run as microtasks in FIFO order, and the      *)
(* caller's own code (pushAction, start, stop) may run between any two of  *)
(* these.                                                                  *)
(***************************************************************************)
EXTENDS Naturals, Sequences, FiniteSets

VARIABLES
  states,            \* the transition table handed to the constructor
  currentState,      \* this.currentState
  actionQueue,       \* this.actionQueue
  status,            \* this.status
  stopCallback,      \* this.stopCallback: a stop() promise, or Undefined
  queuedProcessing,  \* this.queuedProcessing
  timers,            \* setTimeout callbacks armed by queueProcessing, not yet run
  suspended,         \* handlers invoked whose promise has not settled yet
  microtasks,        \* continuations waiting after an await, FIFO
  promises,          \* the promises returned by stop(), by order of the calls
  stopSaw,           \* history: for each stop() call, the handlers in flight
                     \* at the call whose await is not over yet
  pushed,            \* history: every action pushed, in push order
  dequeued,          \* history: every action shifted off the queue, in order
  invoked,           \* history: the data of every action a handler was invoked for
  discarded,         \* history: the data of every action dropped for want of a handler
  failed,            \* history: the data of every action whose handler failed
  startCalls,        \* history: number of start() calls
  initialState       \* history: the initialState handed to the constructor

vars == <<states, currentState, actionQueue, status, stopCallback,
          queuedProcessing, timers, suspended, microtasks, promises,
          stopSaw, pushed, dequeued, invoked, discarded, failed, startCalls,
          initialState>>

hist == <<pushed, dequeued, invoked, discarded, failed, startCalls,
          initialState>>

\* Bounds on the calls the embedding application makes.
MaxPush == 2
MaxStop == 2
MaxStart == 2

\* enum StateManagerStatus
STOPPED == "STOPPED"
RUNNING == "RUNNING"
STOP_PENDING == "STOP_PENDING"
StateManagerStatus == {STOPPED, RUNNING, STOP_PENDING}

\* stopCallback?: () => void = undefined
Undefined == 0

\* The caller's enums S and A.
S == {"S1", "S2", "S3"}
A == {"A1", "A2"}

\* The outcome of a handler that fails: it throws (sync) or the promise it
\* returned rejects (suspends), and no state comes back from the await.
Fails == "fails"

\* type Transition: a handler returns S (sync) or Promise<S> (suspends).
Transition(next, suspends) == [next |-> next, suspends |-> suspends]

\* The table of the test "correct handles a transition.": S1: {A1: () => S2}.
TestTable ==
  [s \in S |-> IF s = "S1" THEN [a \in {"A1"} |-> Transition("S2", FALSE)]
               ELSE [a \in {} |-> Transition("S1", FALSE)]]

\* A table of handlers that return their state directly, whose result
\* depends on the order of the actions.
ChainTable ==
  [s \in S |->
     CASE s = "S1" -> [a \in {"A1"} |-> Transition("S2", FALSE)]
       [] s = "S2" -> [a \in A |-> IF a = "A1" THEN Transition("S1", FALSE)
                                   ELSE Transition("S3", FALSE)]
       [] OTHER    -> [a \in {"A2"} |-> Transition("S1", FALSE)]]

\* The README's shape: async handlers (they return a promise) next to
\* handlers that return their state directly.
MixedTable ==
  [s \in S |->
     CASE s = "S1" -> [a \in A |-> IF a = "A1" THEN Transition("S2", TRUE)
                                   ELSE Transition("S3", FALSE)]
       [] s = "S2" -> [a \in {"A2"} |-> Transition("S1", FALSE)]
       [] OTHER    -> [a \in {"A1"} |-> Transition("S1", TRUE)]]

StateMaps == {TestTable, ChainTable, MixedTable}

\* A table with handlers that fail: one throws, one returns a promise that
\* rejects, next to handlers that succeed.
FailTable ==
  [s \in S |->
     CASE s = "S1" -> [a \in A |-> IF a = "A1" THEN Transition("S2", FALSE)
                                   ELSE Transition(Fails, FALSE)]
       [] s = "S2" -> [a \in A |-> IF a = "A1" THEN Transition(Fails, TRUE)
                                   ELSE Transition("S3", TRUE)]
       [] OTHER    -> [a \in {"A1"} |-> Transition("S1", FALSE)]]

\* A constructor whose status field starts as RUNNING.
constructorRunning ==
  /\ initialState \in S
  /\ currentState = initialState
  /\ actionQueue = << >>
  /\ status = RUNNING
  /\ stopCallback = Undefined
  /\ queuedProcessing = FALSE
  /\ timers = 0
  /\ suspended = {}
  /\ microtasks = << >>
  /\ promises = << >>
  /\ stopSaw = << >>
  /\ pushed = << >>
  /\ dequeued = << >>
  /\ invoked = << >>
  /\ discarded = {}
  /\ failed = {}
  /\ startCalls = 0

\* constructor(states, initialState) and the field initialisers, for the
\* table in states.
constructor ==
  /\ initialState \in S
  /\ currentState = initialState
  /\ actionQueue = << >>
  /\ status = STOPPED
  /\ stopCallback = Undefined
  /\ queuedProcessing = FALSE
  /\ timers = 0
  /\ suspended = {}
  /\ microtasks = << >>
  /\ promises = << >>
  /\ stopSaw = << >>
  /\ pushed = << >>
  /\ dequeued = << >>
  /\ invoked = << >>
  /\ discarded = {}
  /\ failed = {}
  /\ startCalls = 0

Init == states \in StateMaps /\ constructor

\* getCurrentState()
getCurrentState == currentState

\* queueProcessing(): the guard on this.queuedProcessing, then setTimeout.
\* The value setTimeout returns is not stored: queuedProcessing is only ever
\* assigned undefined, so the guard reads what the field initialiser left.
queueProcessing ==
  /\ timers' = IF queuedProcessing THEN timers ELSE timers + 1
  /\ UNCHANGED queuedProcessing

\* A push that puts the action at the head of the queue.
pushFront(q, e) == <<e>> \o q

\* this.actionQueue.push({action, data})
push(q, e) == Append(q, e)

\* A pushAction() that only appends and never arms a processing run.
pushActionNoArm(action) ==
  /\ Len(pushed) < MaxPush
  /\ LET e == [action |-> action, data |-> Len(pushed) + 1] IN
       /\ actionQueue' = push(actionQueue, e)
       /\ pushed' = Append(pushed, e)
  /\ UNCHANGED <<timers, queuedProcessing>>
  /\ UNCHANGED <<states, currentState, status, stopCallback, suspended,
                 microtasks, promises, stopSaw, dequeued, invoked,
                 discarded, failed, startCalls, initialState>>

\* pushAction(action, data): the caller tags each action with a distinct data.
pushAction(action) ==
  /\ Len(pushed) < MaxPush
  /\ LET e == [action |-> action, data |-> Len(pushed) + 1] IN
       /\ actionQueue' = push(actionQueue, e)
       /\ pushed' = Append(pushed, e)
  /\ IF status = RUNNING
       THEN queueProcessing
       ELSE UNCHANGED <<timers, queuedProcessing>>
  /\ UNCHANGED <<states, currentState, status, stopCallback, suspended,
                 microtasks, promises, stopSaw, dequeued, invoked,
                 discarded, failed, startCalls, initialState>>

\* A start() that starts whenever the runner is not Running, so also while
\* a stop is pending.
startUnlessRunning ==
  /\ startCalls < MaxStart
  /\ startCalls' = startCalls + 1
  /\ IF status # RUNNING
       THEN /\ status' = RUNNING
            /\ queueProcessing
       ELSE UNCHANGED <<status, timers, queuedProcessing>>
  /\ UNCHANGED currentState
  /\ UNCHANGED <<states, actionQueue, stopCallback, suspended, microtasks,
                 promises, stopSaw, pushed, dequeued, invoked, discarded,
                 failed, initialState>>

\* A start() that puts the machine back into its initial state.
startReset ==
  /\ startCalls < MaxStart
  /\ startCalls' = startCalls + 1
  /\ IF status = STOPPED
       THEN /\ status' = RUNNING
            /\ currentState' = initialState
            /\ queueProcessing
       ELSE UNCHANGED <<status, currentState, timers, queuedProcessing>>
  /\ UNCHANGED <<states, actionQueue, stopCallback, suspended, microtasks,
                 promises, stopSaw, pushed, dequeued, invoked, discarded,
                 failed, initialState>>

\* A start() without the test of status: it always arms a processing run.
startAlways ==
  /\ startCalls < MaxStart
  /\ startCalls' = startCalls + 1
  /\ status' = IF status = STOPPED THEN RUNNING ELSE status
  /\ queueProcessing
  /\ UNCHANGED currentState
  /\ UNCHANGED <<states, actionQueue, stopCallback, suspended, microtasks,
                 promises, stopSaw, pushed, dequeued, invoked, discarded,
                 failed, initialState>>

\* start()
start ==
  /\ startCalls < MaxStart
  /\ startCalls' = startCalls + 1
  /\ IF status = STOPPED
       THEN /\ status' = RUNNING
            /\ queueProcessing
       ELSE UNCHANGED <<status, timers, queuedProcessing>>
  /\ UNCHANGED <<states, currentState, actionQueue, stopCallback, suspended,
                 microtasks, promises, stopSaw, pushed, dequeued, invoked,
                 discarded, failed, initialState>>

\* The data of the actions whose handler was invoked and whose result has
\* not been adopted yet.
InFlight ==
  {h.data : h \in suspended}
    \cup {microtasks[i].data : i \in {j \in DOMAIN microtasks :
                                        microtasks[j].kind = "adopt"}}

\* A stop() that records the request but arms no processing run.
stopNoArm ==
  /\ Len(promises) < MaxStop
  /\ status' = STOP_PENDING
  /\ stopCallback' = Len(promises) + 1
  /\ promises' = Append(promises, [settled |-> FALSE, from |-> status])
  /\ stopSaw' = Append(stopSaw, InFlight)
  /\ UNCHANGED <<timers, queuedProcessing>>
  /\ UNCHANGED <<states, currentState, actionQueue, suspended, microtasks,
                 pushed, dequeued, invoked, discarded, failed, startCalls,
                 initialState>>

\* A stop() that does not store the callback of the promise it returns.
stopDropsCallback ==
  /\ Len(promises) < MaxStop
  /\ status' = STOP_PENDING
  /\ UNCHANGED stopCallback
  /\ promises' = Append(promises, [settled |-> FALSE, from |-> status])
  /\ stopSaw' = Append(stopSaw, InFlight)
  /\ queueProcessing
  /\ UNCHANGED <<states, currentState, actionQueue, suspended, microtasks,
                 pushed, dequeued, invoked, discarded, failed, startCalls,
                 initialState>>

\* stop(): the executor of the returned promise runs inside the call.
stop ==
  /\ Len(promises) < MaxStop
  /\ status' = STOP_PENDING
  /\ stopCallback' = Len(promises) + 1
  /\ promises' = Append(promises, [settled |-> FALSE, from |-> status])
  /\ stopSaw' = Append(stopSaw, InFlight)
  /\ queueProcessing
  /\ UNCHANGED <<states, currentState, actionQueue, suspended, microtasks,
                 pushed, dequeued, invoked, discarded, failed, startCalls,
                 initialState>>

\* A continuation of an async function, queued as a microtask.
Adopt(data, next) == [kind |-> "adopt", data |-> data, next |-> next]
Resume == [kind |-> "resume", data |-> 0, next |-> "none"]

\* this.actionQueue.shift(): what is left of the queue.
shift(q) == Tail(q)

\* this.states[this.currentState][action.action] is defined
hasTransition(s, action) == action \in DOMAIN states[s]

\* The orders in which the promises of the handlers in Q can settle.
RECURSIVE Orderings(_)
Orderings(Q) ==
  IF Q = {} THEN {<< >>}
  ELSE UNION {{<<h>> \o order : order \in Orderings(Q \ {h})} : h \in Q}

\* transition(action.data) and the await of what it returns. The handler is
\* the caller's code: while it runs it may settle promises that handlers
\* invoked earlier returned, and the rest of their process() is then queued
\* ahead of the rest of this one. A handler that throws rejects the promise
\* of process(), and with it the promise of the processing run that awaits
\* it: nothing of the run is left.
invoke(action, transition) ==
  \E Q \in SUBSET suspended :
    \E order \in Orderings(Q) :
      LET early == [i \in 1..Len(order) |->
                      Adopt(order[i].data, order[i].next)] IN
      /\ invoked' = Append(invoked, action.data)
      /\ IF transition.suspends
           THEN /\ suspended' = (suspended \ Q) \cup
                     {[data |-> action.data, next |-> transition.next]}
                /\ microtasks' = microtasks \o early
                /\ UNCHANGED failed
           ELSE IF transition.next = Fails
           THEN /\ failed' = failed \cup {action.data}
                /\ suspended' = suspended \ Q
                /\ microtasks' = microtasks \o early
           ELSE /\ suspended' = suspended \ Q
                /\ microtasks' = (microtasks \o early)
                                   \o <<Adopt(action.data, transition.next)>>
                /\ UNCHANGED failed

\* A process() that looks at the head of the queue and removes it only once
\* a handler is found for it.
processRetain ==
  IF actionQueue = << >>
    THEN /\ microtasks' = Append(microtasks, Resume)
         /\ UNCHANGED <<actionQueue, dequeued, invoked, discarded, failed,
                        suspended>>
    ELSE LET action == Head(actionQueue) IN
      IF ~hasTransition(currentState, action.action)
        THEN /\ discarded' = discarded \cup {action.data}
             /\ microtasks' = Append(microtasks, Resume)
             /\ UNCHANGED <<actionQueue, dequeued, invoked, failed, suspended>>
        ELSE /\ actionQueue' = shift(actionQueue)
             /\ dequeued' = Append(dequeued, action)
             /\ UNCHANGED discarded
             /\ invoke(action, states[currentState][action.action])

\* process(), up to its await: shift, look the handler up, invoke it.
process ==
  IF actionQueue = << >>
    THEN /\ microtasks' = Append(microtasks, Resume)
         /\ UNCHANGED <<actionQueue, dequeued, invoked, discarded, failed,
                        suspended>>
    ELSE LET action == Head(actionQueue) IN
      /\ actionQueue' = shift(actionQueue)
      /\ dequeued' = Append(dequeued, action)
      /\ IF ~hasTransition(currentState, action.action)
           THEN /\ discarded' = discarded \cup {action.data}
                /\ microtasks' = Append(microtasks, Resume)
                /\ UNCHANGED <<invoked, failed, suspended>>
           ELSE /\ UNCHANGED discarded
                /\ invoke(action, states[currentState][action.action])

\* A stop branch that calls the stored callback and leaves it stored.
honorStopKeepCallback ==
  /\ status' = STOPPED
  /\ promises' = IF stopCallback = Undefined THEN promises
                 ELSE [promises EXCEPT ![stopCallback].settled = TRUE]
  /\ UNCHANGED stopCallback

\* The stop branch of the processing run.
honorStop ==
  /\ status' = STOPPED
  /\ promises' = IF stopCallback = Undefined THEN promises
                 ELSE [promises EXCEPT ![stopCallback].settled = TRUE]
  /\ stopCallback' = Undefined

\* The callback handed to setTimeout, up to its await.
tick ==
  /\ timers > 0
  /\ microtasks = << >>
  /\ timers' = timers - 1
  /\ queuedProcessing' = FALSE
  /\ IF status = STOP_PENDING
       THEN /\ honorStop
            /\ UNCHANGED <<actionQueue, suspended, microtasks, dequeued,
                           invoked, discarded, failed>>
       ELSE /\ process
            /\ UNCHANGED <<status, stopCallback, promises>>
  /\ UNCHANGED <<states, currentState, stopSaw, pushed, startCalls,
                 initialState>>

\* The promise a suspended handler returned settles: the rest of process()
\* is queued as a microtask.
settle ==
  \E h \in suspended :
    /\ suspended' = suspended \ {h}
    /\ microtasks' = Append(microtasks, Adopt(h.data, h.next))
    /\ UNCHANGED <<states, currentState, actionQueue, status, stopCallback,
                   queuedProcessing, timers, promises, stopSaw, hist>>

\* The history stopSaw once the await of the handler invoked for data is over.
finished(data) == [p \in DOMAIN stopSaw |-> stopSaw[p] \ {data}]

\* A process() that assigns what the failed await left: the machine falls
\* back to its initial state when a handler's promise rejects.
adoptFailureResets ==
  /\ microtasks # << >>
  /\ Head(microtasks).kind = "adopt"
  /\ IF Head(microtasks).next = Fails
       THEN /\ microtasks' = Tail(microtasks)
            /\ failed' = failed \cup {Head(microtasks).data}
            /\ currentState' = initialState
       ELSE /\ currentState' = Head(microtasks).next
            /\ microtasks' = Append(Tail(microtasks), Resume)
            /\ UNCHANGED failed
  /\ UNCHANGED status
  /\ UNCHANGED <<states, actionQueue, stopCallback, queuedProcessing,
                 timers, suspended, promises, pushed, dequeued, invoked,
                 discarded, startCalls, initialState>>
  /\ stopSaw' = finished(Head(microtasks).data)

\* A processing run that catches the failure of process() and stops the runner.
adoptFailureStops ==
  /\ microtasks # << >>
  /\ Head(microtasks).kind = "adopt"
  /\ IF Head(microtasks).next = Fails
       THEN /\ microtasks' = Tail(microtasks)
            /\ failed' = failed \cup {Head(microtasks).data}
            /\ status' = STOPPED
            /\ UNCHANGED currentState
       ELSE /\ currentState' = Head(microtasks).next
            /\ microtasks' = Append(Tail(microtasks), Resume)
            /\ UNCHANGED <<failed, status>>
  /\ UNCHANGED <<states, actionQueue, stopCallback, queuedProcessing,
                 timers, suspended, promises, pushed, dequeued, invoked,
                 discarded, startCalls, initialState>>
  /\ stopSaw' = finished(Head(microtasks).data)

\* process() after its await: this.currentState = <the handler's result>;
\* process() returns, which queues the rest of the processing run. When the
\* awaited promise rejected, the await throws instead: nothing is assigned
\* and the rejection ends process() and the processing run awaiting it.
adopt ==
  /\ microtasks # << >>
  /\ Head(microtasks).kind = "adopt"
  /\ IF Head(microtasks).next = Fails
       THEN /\ microtasks' = Tail(microtasks)
            /\ failed' = failed \cup {Head(microtasks).data}
            /\ UNCHANGED currentState
       ELSE /\ currentState' = Head(microtasks).next
            /\ microtasks' = Append(Tail(microtasks), Resume)
            /\ UNCHANGED failed
  /\ UNCHANGED <<states, actionQueue, status, stopCallback, queuedProcessing,
                 timers, suspended, promises, pushed, dequeued, invoked,
                 discarded, startCalls, initialState>>
  /\ stopSaw' = finished(Head(microtasks).data)

\* A processing run that never re-arms after its process step.
resumeNoRearm ==
  /\ microtasks # << >>
  /\ Head(microtasks).kind = "resume"
  /\ microtasks' = Tail(microtasks)
  /\ UNCHANGED <<timers, queuedProcessing>>
  /\ UNCHANGED <<states, currentState, actionQueue, status, stopCallback,
                 suspended, promises, stopSaw, hist>>

\* The processing run after `await this.process()`: re-arm when backlogged.
resume ==
  /\ microtasks # << >>
  /\ Head(microtasks).kind = "resume"
  /\ microtasks' = Tail(microtasks)
  /\ IF actionQueue = << >>
       THEN UNCHANGED <<timers, queuedProcessing>>
       ELSE queueProcessing
  /\ UNCHANGED <<states, currentState, actionQueue, status, stopCallback,
                 suspended, promises, stopSaw, hist>>

Next ==
  \/ \E action \in A : pushAction(action)
  \/ start
  \/ stop
  \/ tick
  \/ settle
  \/ adopt
  \/ resume

Spec == Init /\ [][Next]_vars

\* The runner of the README's shape of table, under a fair event loop: every
\* armed timer and every queued microtask is run, and every promise a
\* handler returned settles.
LiveInit == Init /\ states = MixedTable /\ initialState = "S1"

LiveSpec ==
  /\ LiveInit
  /\ [][Next]_vars
  /\ WF_vars(tick)
  /\ WF_vars(settle)
  /\ WF_vars(adopt)
  /\ WF_vars(resume)

\* The runner of a table with failing handlers. The host reports the
\* rejected promise of the processing run and goes on, or ends the program
\* there: a behaviour that ends early is a prefix of one that goes on.
FailInit == states = FailTable /\ constructor

FailSpec == FailInit /\ [][Next]_vars

TypeOK ==
  /\ states \in StateMaps \cup {FailTable}
  /\ currentState \in S
  /\ status \in StateManagerStatus
  /\ stopCallback \in 0..Len(promises)
  /\ Len(stopSaw) = Len(promises)
  /\ \A p \in DOMAIN stopSaw : stopSaw[p] \subseteq InFlight
  /\ queuedProcessing = FALSE
  /\ timers \in Nat

(***************************************************************************)
(* Properties                                                              *)
(***************************************************************************)

\* A step that runs the callback of an armed timer (only tick disarms one).
TickStep == timers' = timers - 1

\* A step that is a call of stop() (only stop() creates a promise).
StopStep == Len(promises') = Len(promises) + 1

\* Nothing is left to do for the processing runs begun so far.
Drained == actionQueue = << >> /\ suspended = {} /\ microtasks = << >>

\* The state the transition table gives when the actions of seq are applied
\* to s one after another, an action without a handler being skipped.
RECURSIVE applyInOrder(_, _)
applyInOrder(s, seq) ==
  IF seq = << >> THEN s
  ELSE applyInOrder(IF Head(seq).action \in DOMAIN states[s]
                      THEN states[s][Head(seq).action].next
                      ELSE s,
                    Tail(seq))

Range(seq) == {seq[i] : i \in DOMAIN seq}

\* The promise returned by the p-th call of stop() has been settled.
Settled(p) == p \in DOMAIN promises /\ promises[p].settled

\* C1: at most one transition handler is in flight (invoked, its result not
\* yet adopted as the current state) at any time.
C1_OneHandlerAtATime == Cardinality(InFlight) <= 1

\* C2: a stop() promise is settled only once every handler that was in flight
\* when stop() was called has had its result adopted.
C2_StopSettlesAfterInFlight ==
  \A p \in DOMAIN promises :
    promises[p].settled => stopSaw[p] \cap InFlight = {}

\* C3: a runner that was never stopped and has drained its queue is in the
\* state obtained by applying the pushed actions in push order.
C3_DrainYieldsInOrderResult ==
  (Len(promises) = 0 /\ Drained)
    => currentState = applyInOrder(initialState, pushed)

\* C4: a step that begins and ends with status Stopped dequeues no action,
\* invokes no handler and leaves the current state alone.
C4_StoppedProcessesNothing ==
  [][(status = STOPPED /\ status' = STOPPED)
       => /\ dequeued' = dequeued
          /\ invoked' = invoked
          /\ currentState' = currentState]_vars

\* C5: when stop() is called a second time before the first call's promise
\* has settled, both promises eventually settle, and a promise is never
\* settled in a step that does not end with status Stopped.
C5_BothStopsSettle ==
  /\ []((Len(promises) >= 2 /\ ~Settled(1)) => <>(Settled(1) /\ Settled(2)))
  /\ [][\A p \in DOMAIN promises :
          (~promises[p].settled /\ promises'[p].settled) => status' = STOPPED]_vars

\* C6: stop() called in any status sets status to StopPending, and a pending
\* stop always leads to status Stopped.
C6_StopAlwaysReachesStopped ==
  /\ [][StopStep => status' = STOP_PENDING]_vars
  /\ (status = STOP_PENDING) ~> (status = STOPPED)

C6_Witness ==
  /\ Len(promises) = 2
  /\ promises[1].from = RUNNING
  /\ promises[2].from = STOP_PENDING
  /\ status = STOPPED

\* C7: the promise returned by stop() on a Stopped runner is settled by the
\* next processing run: a run that begins while such a promise is unsettled
\* sets status to Stopped and settles it, dequeues no action and leaves the
\* current state alone.
C7_StopWhenStoppedResolves ==
  [][TickStep
       => \A p \in DOMAIN promises :
            (promises[p].from = STOPPED /\ ~promises[p].settled)
              => /\ status' = STOPPED
                 /\ promises'[p].settled
                 /\ actionQueue' = actionQueue
                 /\ dequeued' = dequeued
                 /\ currentState' = currentState]_vars

\* The first pushed action is the head of the queue and the initial state
\* registers a handler for it.
FirstIsHandled ==
  /\ dequeued = << >>
  /\ actionQueue # << >>
  /\ Head(actionQueue).action \in DOMAIN states[initialState]

\* The result of the handler the initial state registers for the first
\* pushed action has become the current state.
FirstAdopted ==
  /\ pushed # << >>
  /\ pushed[1].action \in DOMAIN states[initialState]
  /\ currentState = states[initialState][pushed[1].action].next

\* C8: while the runner is Running its queue is eventually drained (every
\* action in it is dequeued); the first action pushed, when the initial
\* state registers it, eventually makes its handler's result the current
\* state; and with no action pushed the current state stays the initial one.
C8_RunningDrainsQueue ==
  /\ (status = RUNNING /\ actionQueue # << >>)
       ~> (actionQueue = << >> \/ status # RUNNING)
  /\ (status = RUNNING /\ FirstIsHandled) ~> (FirstAdopted \/ status # RUNNING)
  /\ [](pushed = << >> => currentState = initialState)

C8_Witness ==
  /\ Len(promises) = 0
  /\ status = RUNNING
  /\ Len(dequeued) = MaxPush
  /\ actionQueue = << >>
  /\ suspended = {}
  /\ initialState = "S1"
  /\ pushed[1].action = "A1"
  /\ currentState = "S2"

\* C9: the actions dequeued so far followed by the queue are exactly the
\* actions pushed so far, in push order.
C9_DequeuedThenQueueIsPushed == dequeued \o actionQueue = pushed

C9_Witness ==
  /\ startCalls = 2
  /\ status = RUNNING
  /\ Len(promises) = 0
  /\ Len(dequeued) >= 1
  /\ Len(actionQueue) >= 1

\* C10: a processing run whose head action has no handler in the current
\* state removes the action, invokes nothing and leaves current state and
\* status alone; a discarded action is never in the queue again and no
\* handler is ever invoked for it.
C10_UnhandledActionDiscarded ==
  /\ [][(/\ TickStep
         /\ status # STOP_PENDING
         /\ actionQueue # << >>
         /\ Head(actionQueue).action \notin DOMAIN states[currentState])
          => /\ currentState' = currentState
             /\ status' = status
             /\ actionQueue' = Tail(actionQueue)
             /\ invoked' = invoked
             /\ suspended' = suspended
             /\ Head(actionQueue).data \in discarded']_vars
  /\ [](\A d \in discarded :
          /\ d \notin Range(invoked)
          /\ d \notin {actionQueue[i].data : i \in DOMAIN actionQueue})

C10_Witness ==
  /\ discarded # {}
  /\ \E i \in DOMAIN dequeued :
       /\ dequeued[i].data \in discarded
       /\ dequeued[i].action \in DOMAIN states[currentState]
  /\ invoked # << >>

\* A step that is a call of start() (only start() counts its calls).
StartStep == startCalls' = startCalls + 1

\* A step in which process() moves on from its await with the handler's
\* result (only that step turns an adopt continuation into a resume one).
AdoptStep ==
  /\ microtasks # << >>
  /\ Head(microtasks).kind = "adopt"
  /\ Head(microtasks).next # Fails
  /\ microtasks' = Append(Tail(microtasks), Resume)

\* A step in which a handler fails: it throws, or its promise has rejected.
FailStep == failed' # failed

\* The status edges the lifecycle names.
LifecycleEdge ==
  \/ status = STOPPED /\ status' = RUNNING /\ StartStep
  \/ status = RUNNING /\ status' = STOP_PENDING /\ StopStep
  \/ status = STOP_PENDING /\ status' = STOPPED /\ TickStep

\* C11 as stated: every change of status is one of the three edges
\* Stopped -> Running (start), Running -> StopPending (stop),
\* StopPending -> Stopped (the tick honoring the stop).
C11_OnlyThreeEdges == [][status' # status => LifecycleEdge]_vars

\* C11 as amended: every change of status is one of those three edges or
\* the edge Stopped -> StopPending, taken by stop() on a Stopped runner.
C11_LifecycleEdges ==
  [][status' # status
       => \/ LifecycleEdge
          \/ status = STOPPED /\ status' = STOP_PENDING /\ StopStep]_vars

C11_Witness ==
  /\ Len(promises) = 2
  /\ promises[1].from = RUNNING
  /\ promises[1].settled
  /\ promises[2].from = STOPPED
  /\ promises[2].settled
  /\ status = RUNNING

\* C12: the current state changes only in the step that adopts a handler's
\* result, and then to that result; until a handler has been invoked
\* getCurrentState() is the initial state.
C12_StateChangesOnlyByAdoption ==
  /\ [][currentState' # currentState
          => AdoptStep /\ currentState' = Head(microtasks).next]_vars
  /\ [](invoked = << >> => getCurrentState = initialState)

C12_Witness ==
  /\ getCurrentState # initialState
  /\ discarded # {}
  /\ Len(promises) = 2
  /\ Settled(1)
  /\ Settled(2)
  /\ startCalls = 2

\* C13: as long as nothing has been called on it, the runner is as the
\* constructor left it: current state the supplied initial state, status
\* Stopped, queue empty, no processing run armed, no handler invoked.
C13_AfterConstruction ==
  (pushed = << >> /\ startCalls = 0 /\ promises = << >>)
    => /\ getCurrentState = initialState
       /\ status = STOPPED
       /\ actionQueue = << >>
       /\ timers = 0
       /\ ~queuedProcessing
       /\ invoked = << >>
       /\ InFlight = {}

C13_Witness ==
  /\ pushed = << >>
  /\ startCalls = 0
  /\ promises = << >>
  /\ states = MixedTable
  /\ initialState = "S3"

\* C14: at most one processing run is armed and not yet run.
C14_OneRunArmed == timers <= 1

\* C15: a processing run that finds status StopPending sets it to Stopped,
\* calls and clears the stored callback, and changes nothing else: queue and
\* current state stay, nothing is dequeued, and it does not re-arm.
C15_StopTickFrame ==
  [][(TickStep /\ status = STOP_PENDING)
       => /\ status' = STOPPED
          /\ stopCallback # Undefined
          /\ promises' = [promises EXCEPT ![stopCallback].settled = TRUE]
          /\ stopCallback' = Undefined
          /\ UNCHANGED <<actionQueue, currentState, dequeued, invoked,
                         suspended, microtasks>>]_vars

C15_Witness ==
  /\ status = STOPPED
  /\ stopCallback = Undefined
  /\ Settled(1)
  /\ promises[1].from = RUNNING
  /\ Len(actionQueue) = MaxPush

\* C16: start() called while status is Running or StopPending changes
\* nothing: status, queue, current state, stored stop callback and armed
\* processing runs are as before.
C16_StartNoOp ==
  [][(StartStep /\ status # STOPPED)
       => UNCHANGED <<status, actionQueue, currentState, stopCallback,
                      promises, timers, queuedProcessing, suspended,
                      microtasks>>]_vars

C16_Witness ==
  /\ startCalls = 2
  /\ Len(promises) = 1
  /\ promises[1].from = RUNNING
  /\ status = STOP_PENDING

\* C17: whenever status is STOP_PENDING a stop callback is stored.
C17_StopPendingHasCallback ==
  status = STOP_PENDING => stopCallback # Undefined

C17_Witness ==
  /\ status = STOP_PENDING
  /\ Len(promises) = 2
  /\ Settled(1)
  /\ stopCallback = 2

\* C18: the step in which a handler fails leaves the current state alone
\* and puts nothing back into the queue; a failed action is not in the queue
\* and its handler is invoked once only; the queue keeps the push order.
C18_FailureKeepsStateAndQueue ==
  /\ [][FailStep
          => /\ currentState' = currentState
             /\ \/ actionQueue' = actionQueue
                \/ /\ actionQueue # << >>
                   /\ actionQueue' = Tail(actionQueue)
                   /\ failed' = failed \cup {Head(actionQueue).data}]_vars
  /\ [](/\ \A d \in failed :
             /\ d \notin {actionQueue[i].data : i \in DOMAIN actionQueue}
             /\ Cardinality({i \in DOMAIN invoked : invoked[i] = d}) = 1
        /\ dequeued \o actionQueue = pushed)

C18_Witness ==
  /\ failed # {}
  /\ actionQueue # << >>
  /\ status = RUNNING

\* C19 as stated: the step in which a handler fails ends with status
\* Stopped and with every stop() promise made so far settled.
C19_FailureForcesStopped ==
  [][FailStep
       => /\ status' = STOPPED
          /\ \A p \in DOMAIN promises : promises'[p].settled]_vars

\* C19 as amended: the step in which a handler fails ends that processing
\* run without re-arming, and changes neither status nor the stored stop
\* callback nor any stop() promise.
C19_FailureLeavesStatus ==
  [][FailStep
       => /\ UNCHANGED <<status, stopCallback, promises>>
          /\ timers' <= timers
          /\ Len(SelectSeq(microtasks', LAMBDA m : m = Resume))
               <= Len(SelectSeq(microtasks, LAMBDA m : m = Resume))]_vars

C19_Witness ==
  /\ failed # {}
  /\ status = STOP_PENDING
  /\ stopCallback # Undefined
  /\ ~promises[stopCallback].settled
  /\ Len(dequeued) = MaxPush

\* C20: a Running runner with no processing run armed, no continuation
\* queued and no handler in flight has an empty queue.
C20_NoStrandedWork ==
  (status = RUNNING /\ timers = 0 /\ microtasks = << >> /\ suspended = {})
    => actionQueue = << >>

C20_Witness ==
  /\ status = RUNNING
  /\ timers = 0
  /\ microtasks = << >>
  /\ suspended = {}
  /\ Len(dequeued) = MaxPush
  /\ Len(promises) >= 1
====
